---- MODULE Spec2Model ----
(***************************************************************************)
(* A model of wacht, the live reload server of src/wacht/__init__.py:      *)
(*   - the process lifecycle of ReloadServer (start, _daemonize, _shutdown, *)
(*     stop) with the PID file, the signal handlers and the serving thread, *)
(*   - ReloadHandler.translate_path as a function on character sequences,   *)
(*   - the polling loop of RELOAD_SCRIPT against get_mtime.                 *)
(***************************************************************************)
EXTENDS Integers, Sequences, FiniteSets, TLC

VARIABLES
    \* ---- one entry per invocation of ReloadServer.start() ----
    pc,              \* where the invocation's main thread stands, or ended
    daemon,          \* the daemon argument of start()
    role,            \* which process of the double fork runs the code
    exit,            \* how that process ended: "run", "exit0", "exit1", "killed"
    stdio,           \* "tty", or "null" after the redirection of _daemonize
    handlers,        \* the signals whose handler is self._shutdown
    server,          \* self._server: "none", "open" (listening), "closed"
    thread,          \* server_thread: "none", "starting", "loop", "handling", "done"
    shutdownEvent,   \* self._shutdown_event
    shutdownRequest, \* BaseServer.__shutdown_request
    isShutDown,      \* BaseServer.__is_shut_down
    bindResult,      \* "untried", "ok", "failed": the outcome of TCPServer(...)
    \* ---- the file system and the process table ----
    pidDir,          \* the directory of the PID file: "absent", "present",
                     \* or the invocation whose mkdir created it
    pidFile,         \* <<>> when absent, else the process id it holds
    foreign,         \* process ids of dead processes reused by another user
    nsig,            \* signals the environment has sent so far
    \* ---- one entry per invocation of ReloadServer.stop() ----
    kpc,             \* where the stop command stands, or ended
    kpid,            \* the pid it read from the PID file
    kexit,           \* its exit status
    sent,            \* the os.kill calls of each stop command, in order
    \* ---- one call of ReloadHandler.translate_path ----
    webroot,         \* self.webroot, as text
    reqPath,         \* the path of the request line, as sent
    fsPath,          \* the path translate_path returned
    tpc,             \* "request" before the call, "translated" after it
    \* ---- the webroot and one browser page with RELOAD_SCRIPT ----
    dir,             \* the names of the files of the webroot, in listing order
    mtime,           \* st_mtime of each file, in half seconds
    now,             \* the clock, in half seconds
    pstate,          \* the page: "none", "polling", "reloading"
    baseline,        \* the script's variable mtimes
    seen,            \* "clean"; "changed": a file changed since the page was
                     \* served; "missed": and a poll has fetched /.mtimes since
    kind,            \* of each entry of the webroot: "file" or "dir"
    rootKind,        \* what the webroot path names: "dir", "file", "absent"
    \* ---- one GET request in ReloadHandler.do_GET ----
    rpc,             \* where the handler stands: "idle", "do_GET", ..., "done"
    rline,           \* the path of the request line, as its segments
    rpath,           \* self.path, as its segments: <<"/">>, <<"/", name>>
    rname,           \* the name of the file the handler resolved, or ""
    rbody,           \* the file whose content was read, "DEFAULT_HTML", or ""
    rfp,             \* the fingerprint the handler computed
    rstatus,         \* 200, 404, or 0: the connection closed with no response
    rlate,           \* the file read was written or removed before the
                     \* handler computed the fingerprint
    \* ---- one injection of the script into a document ----
    html,            \* content, as a sequence of pieces of text
    ifp,             \* mtimes, the fingerprint put into the script
    injected         \* the content after the injection; <<>> before it

lifeVars == <<pc, daemon, role, exit, stdio, handlers, server, thread,
              shutdownEvent, shutdownRequest, isShutDown, bindResult,
              pidDir, pidFile, foreign, nsig, kpc, kpid, kexit, sent>>

pathVars == <<webroot, reqPath, fsPath, tpc>>

pageVars == <<dir, mtime, now, pstate, baseline, seen, kind, rootKind>>

serveVars == <<rpc, rline, rpath, rname, rbody, rfp, rstatus, rlate>>

injectVars == <<html, ifp, injected>>

vars == <<lifeVars, pathVars, pageVars, serveVars, injectVars>>

\* A step of one part leaves the other parts alone.
LifeFrame == UNCHANGED <<pathVars, pageVars, serveVars, injectVars>>
PathFrame == UNCHANGED <<lifeVars, pageVars, serveVars, injectVars>>
PageFrame == UNCHANGED <<lifeVars, pathVars, serveVars, injectVars>>
ServeFrame == UNCHANGED <<lifeVars, pathVars, pageVars, injectVars>>
InjectFrame == UNCHANGED <<lifeVars, pathVars, pageVars, serveVars>>

\* The invocations of start() and of stop() that run side by side.
Starts == {"s1", "s2"}
Stops == {"k1"}

\* Signals the environment (a terminal, a user's kill) sends on its own.
MaxSignals == 1

Roles == <<"parent", "child", "grandchild">>
Signals == {"SIGINT", "SIGTERM", "SIGHUP"}
NoFile == <<>>

\* A process id: the invocation and the stage of the double fork.
PidOf(i, r) == <<i, r>>

\* os.getpid() in the process that currently runs invocation i.
Getpid(i) == PidOf(i, role[i])

\* The process that runs invocation i has not ended.
Alive(i) == exit[i] = "run"

\* The main thread of invocation i is about to run the code at l.
At(i, l) == Alive(i) /\ pc[i] = l

\* The stop command k is about to run the code at l.
KAt(k, l) == kexit[k] = "run" /\ kpc[k] = l

PidAlive(p) == \E i \in Starts : Alive(i) /\ Getpid(i) = p

\* A pid that named a process of the model which is gone.
PidDead(p) ==
    \E i \in Starts :
        /\ p = PidOf(i, "grandchild")
        /\ role[i] = "grandchild"
        /\ ~Alive(i)

Exists == pidFile # NoFile

Goto(i, l) == pc' = [pc EXCEPT ![i] = l]

\* sys.exit(status), or the end by an exception nothing catches: pc keeps
\* the place where the process ended.
SysExit(i, status) ==
    /\ exit' = [exit EXCEPT ![i] = status]
    /\ UNCHANGED pc

LifeInit ==
    /\ pc = [i \in Starts |-> "start"]
    /\ daemon \in [Starts -> BOOLEAN]
    /\ role = [i \in Starts |-> "parent"]
    /\ exit = [i \in Starts |-> "run"]
    /\ stdio = [i \in Starts |-> "tty"]
    /\ handlers = [i \in Starts |-> {}]
    /\ server = [i \in Starts |-> "none"]
    /\ thread = [i \in Starts |-> "none"]
    /\ shutdownEvent = [i \in Starts |-> FALSE]
    /\ shutdownRequest = [i \in Starts |-> FALSE]
    /\ isShutDown = [i \in Starts |-> FALSE]
    /\ bindResult = [i \in Starts |-> "untried"]
    /\ pidDir \in {"absent", "present"}
    /\ pidFile = NoFile
    /\ foreign = {}
    /\ nsig = 0
    /\ kpc = [k \in Stops |-> "k_start"]
    /\ kpid = [k \in Stops |-> NoFile]
    /\ kexit = [k \in Stops |-> "run"]
    /\ sent = [k \in Stops |-> <<>>]

\* ------------------------------------------------------------------------
\* ReloadServer.start
\* ------------------------------------------------------------------------

\* get_pid_file(): creates the directory of the PID file (mkdir with
\* exist_ok) and returns the path: the PID file itself is not touched.
get_pid_file(who) == pidDir' = IF pidDir = "absent" THEN who ELSE pidDir

\* start(), line 164: self._pid_file = get_pid_file(); then the daemon branch.
StartEnter(i) ==
    /\ At(i, "start")
    /\ get_pid_file(i)
    /\ Goto(i, IF daemon[i] THEN "d_check" ELSE "sig_int")
    /\ LifeFrame
    /\ UNCHANGED <<daemon, role, exit, stdio, handlers, server, thread,
                   shutdownEvent, shutdownRequest, isShutDown, bindResult,
                   pidFile, foreign, nsig, kpc, kpid, kexit, sent>>

\* Mutant: the daemon branch without the test of the PID file.
DaemonCheck_NoAbort(i) ==
    /\ At(i, "d_check")
    /\ Goto(i, "fork1")
    /\ LifeFrame
    /\ UNCHANGED <<daemon, role, exit, stdio, handlers, server, thread,
                   shutdownEvent, shutdownRequest, isShutDown, bindResult,
                   pidDir, pidFile, foreign, nsig, kpc, kpid, kexit, sent>>

\* start(), lines 166-171: a PID file that exists aborts the daemon start.
DaemonCheck(i) ==
    /\ At(i, "d_check")
    /\ IF Exists THEN SysExit(i, "exit1")
                 ELSE Goto(i, "fork1") /\ UNCHANGED exit
    /\ LifeFrame
    /\ UNCHANGED <<daemon, role, stdio, handlers, server, thread,
                   shutdownEvent, shutdownRequest, isShutDown, bindResult,
                   pidDir, pidFile, foreign, nsig, kpc, kpid, kexit, sent>>

\* os.fork() followed by sys.exit(0) in the process that called it: the
\* code goes on in the new process. A failed fork exits with status 1.
Fork(i, at, newRole, next) ==
    /\ At(i, at)
    /\ \E ok \in BOOLEAN :
         IF ok THEN /\ role' = [role EXCEPT ![i] = newRole]
                    /\ Goto(i, next)
                    /\ UNCHANGED exit
               ELSE /\ SysExit(i, "exit1")
                    /\ UNCHANGED role
    /\ LifeFrame
    /\ UNCHANGED <<daemon, stdio, handlers, server, thread,
                   shutdownEvent, shutdownRequest, isShutDown, bindResult,
                   pidDir, pidFile, foreign, nsig, kpc, kpid, kexit, sent>>

\* _daemonize(), lines 230-235.
Fork1(i) == Fork(i, "fork1", "child", "detach")

\* _daemonize(), lines 237-239: chdir("/"), setsid(), umask(0).
Detach(i) ==
    /\ At(i, "detach")
    /\ Goto(i, "fork2")
    /\ LifeFrame
    /\ UNCHANGED <<daemon, role, exit, stdio, handlers, server, thread,
                   shutdownEvent, shutdownRequest, isShutDown, bindResult,
                   pidDir, pidFile, foreign, nsig, kpc, kpid, kexit, sent>>

\* _daemonize(), lines 241-246.
Fork2(i) == Fork(i, "fork2", "grandchild", "redirect")

\* _daemonize(), lines 248-254: the standard streams go to /dev/null.
Redirect(i) ==
    /\ At(i, "redirect")
    /\ stdio' = [stdio EXCEPT ![i] = "null"]
    /\ Goto(i, "writepid")
    /\ LifeFrame
    /\ UNCHANGED <<daemon, role, exit, handlers, server, thread,
                   shutdownEvent, shutdownRequest, isShutDown, bindResult,
                   pidDir, pidFile, foreign, nsig, kpc, kpid, kexit, sent>>

\* Mutant: the pid is taken before _daemonize() and written after it.
WritePid_ParentPid(i) ==
    /\ At(i, "writepid")
    /\ pidFile' = PidOf(i, "parent")
    /\ Goto(i, "sig_int")
    /\ LifeFrame
    /\ UNCHANGED <<daemon, role, exit, stdio, handlers, server, thread,
                   shutdownEvent, shutdownRequest, isShutDown, bindResult,
                   pidDir, foreign, nsig, kpc, kpid, kexit, sent>>

\* start(), line 174: self._pid_file.write_text(str(os.getpid())).
WritePid(i) ==
    /\ At(i, "writepid")
    /\ pidFile' = Getpid(i)
    /\ Goto(i, "sig_int")
    /\ LifeFrame
    /\ UNCHANGED <<daemon, role, exit, stdio, handlers, server, thread,
                   shutdownEvent, shutdownRequest, isShutDown, bindResult,
                   pidDir, foreign, nsig, kpc, kpid, kexit, sent>>

\* start(), lines 177-182: signal.signal(sig, self._shutdown), one signal
\* after the other; SIGPIPE is set to be ignored with the last of them.
Install(i, at, sig, next) ==
    /\ At(i, at)
    /\ handlers' = [handlers EXCEPT ![i] = @ \cup {sig}]
    /\ Goto(i, next)
    /\ LifeFrame
    /\ UNCHANGED <<daemon, role, exit, stdio, server, thread,
                   shutdownEvent, shutdownRequest, isShutDown, bindResult,
                   pidDir, pidFile, foreign, nsig, kpc, kpid, kexit, sent>>

InstallInt(i) == Install(i, "sig_int", "SIGINT", "sig_term")
InstallTerm(i) == Install(i, "sig_term", "SIGTERM", "sig_hup")
InstallHup(i) == Install(i, "sig_hup", "SIGHUP", "bind")

\* start(), lines 185-188: socketserver.TCPServer(("", port), ...) binds and
\* listens, or raises OSError (the port is held by some other socket).
Bind(i) ==
    /\ At(i, "bind")
    /\ \E ok \in BOOLEAN :
         IF ok THEN /\ server' = [server EXCEPT ![i] = "open"]
                    /\ bindResult' = [bindResult EXCEPT ![i] = "ok"]
                    /\ Goto(i, "thread_start")
               ELSE /\ bindResult' = [bindResult EXCEPT ![i] = "failed"]
                    /\ Goto(i, "bf_check")
                    /\ UNCHANGED server
    /\ LifeFrame
    /\ UNCHANGED <<daemon, role, exit, stdio, handlers, thread,
                   shutdownEvent, shutdownRequest, isShutDown,
                   pidDir, pidFile, foreign, nsig, kpc, kpid, kexit, sent>>

\* start(), lines 189-197: the three lines printed in the foreground, then
\* threading.Thread(target=self._server.serve_forever).start().
ThreadStart(i) ==
    /\ At(i, "thread_start")
    /\ thread' = [thread EXCEPT ![i] = "starting"]
    /\ Goto(i, "wait")
    /\ LifeFrame
    /\ UNCHANGED <<daemon, role, exit, stdio, handlers, server,
                   shutdownEvent, shutdownRequest, isShutDown, bindResult,
                   pidDir, pidFile, foreign, nsig, kpc, kpid, kexit, sent>>

\* start(), lines 200-201: while not self._shutdown_event.is_set(): sleep.
WaitLoop(i) ==
    /\ At(i, "wait")
    /\ ~shutdownEvent[i]
    /\ LifeFrame
    /\ UNCHANGED lifeVars

\* Mutant: the except block without the removal of the PID file.
BindFailCheck_NoCleanup(i) ==
    /\ At(i, "bf_check")
    /\ Goto(i, "bf_exit")
    /\ LifeFrame
    /\ UNCHANGED <<daemon, role, exit, stdio, handlers, server, thread,
                   shutdownEvent, shutdownRequest, isShutDown, bindResult,
                   pidDir, pidFile, foreign, nsig, kpc, kpid, kexit, sent>>

\* start(), lines 203-205: except OSError: the error is printed and the
\* condition `daemon and self._pid_file.exists()` evaluated.
BindFailCheck(i) ==
    /\ At(i, "bf_check")
    /\ Goto(i, IF daemon[i] /\ Exists THEN "bf_unlink" ELSE "bf_exit")
    /\ LifeFrame
    /\ UNCHANGED <<daemon, role, exit, stdio, handlers, server, thread,
                   shutdownEvent, shutdownRequest, isShutDown, bindResult,
                   pidDir, pidFile, foreign, nsig, kpc, kpid, kexit, sent>>

\* start(), line 206: self._pid_file.unlink(). A file that went away since
\* the exists() raises FileNotFoundError inside the except block: nothing
\* catches it and the interpreter ends with status 1.
BindFailUnlink(i) ==
    /\ At(i, "bf_unlink")
    /\ IF Exists THEN /\ pidFile' = NoFile
                      /\ Goto(i, "bf_exit")
                      /\ UNCHANGED exit
                 ELSE /\ SysExit(i, "exit1")
                      /\ UNCHANGED pidFile
    /\ LifeFrame
    /\ UNCHANGED <<daemon, role, stdio, handlers, server, thread,
                   shutdownEvent, shutdownRequest, isShutDown, bindResult,
                   pidDir, foreign, nsig, kpc, kpid, kexit, sent>>

\* start(), line 207: sys.exit(1).
BindFailExit(i) ==
    /\ At(i, "bf_exit")
    /\ SysExit(i, "exit1")
    /\ LifeFrame
    /\ UNCHANGED <<daemon, role, stdio, handlers, server, thread,
                   shutdownEvent, shutdownRequest, isShutDown, bindResult,
                   pidDir, pidFile, foreign, nsig, kpc, kpid, kexit, sent>>

\* ------------------------------------------------------------------------
\* ReloadServer._shutdown, the handler of SIGINT, SIGTERM and SIGHUP. It runs
\* in the main thread, on top of whatever that thread was doing, and ends in
\* sys.exit(0): the interrupted code is never resumed. A signal that arrives
\* while the handler runs starts the handler again, nested.
\* ------------------------------------------------------------------------

\* _shutdown(), lines 258-265: self._shutdown_event.set(); if self._server:
ShEvent(i) ==
    /\ At(i, "sh_event")
    /\ shutdownEvent' = [shutdownEvent EXCEPT ![i] = TRUE]
    /\ Goto(i, IF server[i] # "none" THEN "sh_request" ELSE "sh_pidcheck")
    /\ LifeFrame
    /\ UNCHANGED <<daemon, role, exit, stdio, handlers, server, thread,
                   shutdownRequest, isShutDown, bindResult,
                   pidDir, pidFile, foreign, nsig, kpc, kpid, kexit, sent>>

\* BaseServer.shutdown(), first half: self.__shutdown_request = True.
ShRequest(i) ==
    /\ At(i, "sh_request")
    /\ shutdownRequest' = [shutdownRequest EXCEPT ![i] = TRUE]
    /\ Goto(i, "sh_wait")
    /\ LifeFrame
    /\ UNCHANGED <<daemon, role, exit, stdio, handlers, server, thread,
                   shutdownEvent, isShutDown, bindResult,
                   pidDir, pidFile, foreign, nsig, kpc, kpid, kexit, sent>>

\* BaseServer.shutdown(), second half: self.__is_shut_down.wait() returns
\* once serve_forever() has set the event.
ShWait(i) ==
    /\ At(i, "sh_wait")
    /\ isShutDown[i]
    /\ Goto(i, "sh_close")
    /\ LifeFrame
    /\ UNCHANGED <<daemon, role, exit, stdio, handlers, server, thread,
                   shutdownEvent, shutdownRequest, isShutDown, bindResult,
                   pidDir, pidFile, foreign, nsig, kpc, kpid, kexit, sent>>

\* _shutdown(), lines 268-271: self._server.server_close(); an exception it
\* raises is caught by `except Exception` and printed.
ShClose(i) ==
    /\ At(i, "sh_close")
    /\ \E raised \in BOOLEAN :
         server' = [server EXCEPT ![i] = IF raised THEN @ ELSE "closed"]
    /\ Goto(i, "sh_pidcheck")
    /\ LifeFrame
    /\ UNCHANGED <<daemon, role, exit, stdio, handlers, thread,
                   shutdownEvent, shutdownRequest, isShutDown, bindResult,
                   pidDir, pidFile, foreign, nsig, kpc, kpid, kexit, sent>>

\* _shutdown(), line 274: self._pid_file is set by start() in every mode, so
\* the condition is self._pid_file.exists().
ShPidCheck(i) ==
    /\ At(i, "sh_pidcheck")
    /\ Goto(i, IF Exists THEN "sh_unlink" ELSE "sh_exit")
    /\ LifeFrame
    /\ UNCHANGED <<daemon, role, exit, stdio, handlers, server, thread,
                   shutdownEvent, shutdownRequest, isShutDown, bindResult,
                   pidDir, pidFile, foreign, nsig, kpc, kpid, kexit, sent>>

\* _shutdown(), lines 275-278: unlink(), OSError passed over.
ShUnlink(i) ==
    /\ At(i, "sh_unlink")
    /\ pidFile' = NoFile
    /\ Goto(i, "sh_exit")
    /\ LifeFrame
    /\ UNCHANGED <<daemon, role, exit, stdio, handlers, server, thread,
                   shutdownEvent, shutdownRequest, isShutDown, bindResult,
                   pidDir, foreign, nsig, kpc, kpid, kexit, sent>>

\* _shutdown(), line 280: sys.exit(0).
ShExit(i) ==
    /\ At(i, "sh_exit")
    /\ SysExit(i, "exit0")
    /\ LifeFrame
    /\ UNCHANGED <<daemon, role, stdio, handlers, server, thread,
                   shutdownEvent, shutdownRequest, isShutDown, bindResult,
                   pidDir, pidFile, foreign, nsig, kpc, kpid, kexit, sent>>

\* ------------------------------------------------------------------------
\* The serving thread: BaseServer.serve_forever of the standard library,
\* started by start() at line 197.
\* ------------------------------------------------------------------------

\* serve_forever(): self.__is_shut_down.clear() on entry.
ThreadEnter(i) ==
    /\ Alive(i)
    /\ thread[i] = "starting"
    /\ isShutDown' = [isShutDown EXCEPT ![i] = FALSE]
    /\ thread' = [thread EXCEPT ![i] = "loop"]
    /\ LifeFrame
    /\ UNCHANGED <<pc, daemon, role, exit, stdio, handlers, server,
                   shutdownEvent, shutdownRequest, bindResult,
                   pidDir, pidFile, foreign, nsig, kpc, kpid, kexit, sent>>

\* serve_forever(): a connection is ready and no shutdown is requested: the
\* request is handled in this thread, to its end.
ThreadAccept(i) ==
    /\ Alive(i)
    /\ thread[i] = "loop"
    /\ ~shutdownRequest[i]
    /\ thread' = [thread EXCEPT ![i] = "handling"]
    /\ LifeFrame
    /\ UNCHANGED <<pc, daemon, role, exit, stdio, handlers, server,
                   shutdownEvent, shutdownRequest, isShutDown, bindResult,
                   pidDir, pidFile, foreign, nsig, kpc, kpid, kexit, sent>>

\* The request in hand ends when its client has sent it and read the answer:
\* the handler has no timeout.
ThreadFinishRequest(i) ==
    /\ Alive(i)
    /\ thread[i] = "handling"
    /\ thread' = [thread EXCEPT ![i] = "loop"]
    /\ LifeFrame
    /\ UNCHANGED <<pc, daemon, role, exit, stdio, handlers, server,
                   shutdownEvent, shutdownRequest, isShutDown, bindResult,
                   pidDir, pidFile, foreign, nsig, kpc, kpid, kexit, sent>>

\* serve_forever(): the loop sees __shutdown_request and leaves; finally:
\* self.__shutdown_request = False; self.__is_shut_down.set().
ThreadExit(i) ==
    /\ Alive(i)
    /\ thread[i] = "loop"
    /\ shutdownRequest[i]
    /\ shutdownRequest' = [shutdownRequest EXCEPT ![i] = FALSE]
    /\ isShutDown' = [isShutDown EXCEPT ![i] = TRUE]
    /\ thread' = [thread EXCEPT ![i] = "done"]
    /\ LifeFrame
    /\ UNCHANGED <<pc, daemon, role, exit, stdio, handlers, server,
                   shutdownEvent, bindResult,
                   pidDir, pidFile, foreign, nsig, kpc, kpid, kexit, sent>>

\* ------------------------------------------------------------------------
\* Signals and the process table
\* ------------------------------------------------------------------------

\* What a signal does to the process that runs invocation i: the handler
\* start() installed for it, or the default action, which ends the process.
Deliver(i, sig) ==
    IF sig \in handlers[i]
    THEN Goto(i, "sh_event") /\ UNCHANGED exit
    ELSE SysExit(i, "killed")

\* A signal from outside: Ctrl+C, a closed terminal, a kill.
EnvSignal(i) ==
    /\ Alive(i)
    /\ nsig < MaxSignals
    /\ nsig' = nsig + 1
    /\ \E sig \in Signals : Deliver(i, sig)
    /\ LifeFrame
    /\ UNCHANGED <<daemon, role, stdio, handlers, server, thread,
                   shutdownEvent, shutdownRequest, isShutDown, bindResult,
                   pidDir, pidFile, foreign, kpc, kpid, kexit, sent>>

\* The process id of a daemon that is gone is given to a process of
\* another user. Only a pid that the PID file or a stop command still
\* names can be met again.
PidReuse(p) ==
    /\ PidDead(p)
    /\ p = pidFile \/ \E k \in Stops : KAt(k, "k_kill") /\ kpid[k] = p
    /\ p \notin foreign
    /\ foreign' = foreign \cup {p}
    /\ LifeFrame
    /\ UNCHANGED <<pc, daemon, role, exit, stdio, handlers, server, thread,
                   shutdownEvent, shutdownRequest, isShutDown, bindResult,
                   pidDir, pidFile, nsig, kpc, kpid, kexit, sent>>

\* ------------------------------------------------------------------------
\* ReloadServer.stop
\* ------------------------------------------------------------------------

KGoto(k, l) == kpc' = [kpc EXCEPT ![k] = l]

\* raise SystemExit(status), the return of stop() (status 0), or the end by
\* an exception nothing catches (status 1): kpc keeps the place.
KExit(k, status) ==
    /\ kexit' = [kexit EXCEPT ![k] = status]
    /\ UNCHANGED kpc

\* stop(), line 211: self._pid_file = get_pid_file().
StopEnter(k) ==
    /\ KAt(k, "k_start")
    /\ get_pid_file(k)
    /\ KGoto(k, "k_check")
    /\ LifeFrame
    /\ UNCHANGED <<pc, daemon, role, exit, stdio, handlers, server, thread,
                   shutdownEvent, shutdownRequest, isShutDown, bindResult,
                   pidFile, foreign, nsig, kpid, kexit, sent>>

\* Mutant: stop() without the test of the PID file.
StopCheck_NoExit(k) ==
    /\ KAt(k, "k_check")
    /\ KGoto(k, "k_read")
    /\ LifeFrame
    /\ UNCHANGED <<pc, daemon, role, exit, stdio, handlers, server, thread,
                   shutdownEvent, shutdownRequest, isShutDown, bindResult,
                   pidDir, pidFile, foreign, nsig, kpid, kexit, sent>>

\* stop(), lines 212-214: no PID file: raise SystemExit(1).
StopCheck(k) ==
    /\ KAt(k, "k_check")
    /\ IF Exists THEN KGoto(k, "k_read") /\ UNCHANGED kexit
                 ELSE KExit(k, "exit1")
    /\ LifeFrame
    /\ UNCHANGED <<pc, daemon, role, exit, stdio, handlers, server, thread,
                   shutdownEvent, shutdownRequest, isShutDown, bindResult,
                   pidDir, pidFile, foreign, nsig, kpid, sent>>

\* stop(), line 216: pid = int(self._pid_file.read_text().strip()). A file
\* removed since the exists() raises FileNotFoundError, which nothing
\* catches: the command ends with status 1.
StopRead(k) ==
    /\ KAt(k, "k_read")
    /\ IF Exists THEN /\ kpid' = [kpid EXCEPT ![k] = pidFile]
                      /\ KGoto(k, "k_kill")
                      /\ UNCHANGED kexit
                 ELSE /\ KExit(k, "exit1")
                      /\ UNCHANGED kpid
    /\ LifeFrame
    /\ UNCHANGED <<pc, daemon, role, exit, stdio, handlers, server, thread,
                   shutdownEvent, shutdownRequest, isShutDown, bindResult,
                   pidDir, pidFile, foreign, nsig, sent>>

\* Mutant: PermissionError handled like ProcessLookupError, the PID file
\* removed.
StopKill_UnlinkDenied(k) ==
    /\ KAt(k, "k_kill")
    /\ sent' = [sent EXCEPT ![k] = Append(@, <<kpid[k], "SIGTERM">>)]
    /\ IF kpid[k] \in foreign
       THEN /\ KExit(k, "exit1")
            /\ pidFile' = NoFile
            /\ UNCHANGED <<pc, exit>>
       ELSE IF PidAlive(kpid[k])
       THEN /\ \E i \in Starts :
                 Alive(i) /\ Getpid(i) = kpid[k] /\ Deliver(i, "SIGTERM")
            /\ KGoto(k, "k_unlink_ok")
            /\ UNCHANGED <<kexit, pidFile>>
       ELSE /\ KGoto(k, "k_unlink_gone")
            /\ UNCHANGED <<pc, exit, kexit, pidFile>>
    /\ LifeFrame
    /\ UNCHANGED <<daemon, role, stdio, handlers, server, thread,
                   shutdownEvent, shutdownRequest, isShutDown, bindResult,
                   pidDir, foreign, nsig, kpid>>

\* stop(), lines 218 and 221-226: os.kill(pid, signal.SIGTERM). The signal
\* is delivered, or the call raises PermissionError (the process belongs to
\* another user: exit status 1) or ProcessLookupError (no such process).
StopKill(k) ==
    /\ KAt(k, "k_kill")
    /\ sent' = [sent EXCEPT ![k] = Append(@, <<kpid[k], "SIGTERM">>)]
    /\ IF kpid[k] \in foreign
       THEN /\ KExit(k, "exit1")
            /\ UNCHANGED <<pc, exit>>
       ELSE IF PidAlive(kpid[k])
       THEN /\ \E i \in Starts :
                 Alive(i) /\ Getpid(i) = kpid[k] /\ Deliver(i, "SIGTERM")
            /\ KGoto(k, "k_unlink_ok")
            /\ UNCHANGED kexit
       ELSE /\ KGoto(k, "k_unlink_gone")
            /\ UNCHANGED <<pc, exit, kexit>>
    /\ LifeFrame
    /\ UNCHANGED <<daemon, role, stdio, handlers, server, thread,
                   shutdownEvent, shutdownRequest, isShutDown, bindResult,
                   pidDir, pidFile, foreign, nsig, kpid>>

\* Mutant: stop() returns without removing the PID file.
StopUnlink_Keep(k, at) ==
    /\ KAt(k, at)
    /\ KExit(k, "exit0")
    /\ LifeFrame
    /\ UNCHANGED <<pc, daemon, role, exit, stdio, handlers, server, thread,
                   shutdownEvent, shutdownRequest, isShutDown, bindResult,
                   pidDir, pidFile, foreign, nsig, kpid, sent>>

\* self._pid_file.unlink() in stop(), then the return of stop(). A file
\* that is gone raises FileNotFoundError, which neither except clause
\* catches: the command ends with status 1.
StopUnlink(k, at) ==
    /\ KAt(k, at)
    /\ IF Exists THEN /\ pidFile' = NoFile
                      /\ KExit(k, "exit0")
                 ELSE /\ KExit(k, "exit1")
                      /\ UNCHANGED pidFile
    /\ LifeFrame
    /\ UNCHANGED <<pc, daemon, role, exit, stdio, handlers, server, thread,
                   shutdownEvent, shutdownRequest, isShutDown, bindResult,
                   pidDir, foreign, nsig, kpid, sent>>

\* stop(), lines 219-220: "Daemon stopped", unlink().
StopUnlinkStopped(k) == StopUnlink(k, "k_unlink_ok")

\* stop(), lines 221-223: except ProcessLookupError: "not found", unlink().
StopUnlinkNotFound(k) == StopUnlink(k, "k_unlink_gone")

\* ------------------------------------------------------------------------
\* The lifecycle as a whole
\* ------------------------------------------------------------------------

MainStep(i) ==
    \/ StartEnter(i) \/ DaemonCheck(i) \/ Fork1(i) \/ Detach(i) \/ Fork2(i)
    \/ Redirect(i) \/ WritePid(i)
    \/ InstallInt(i) \/ InstallTerm(i) \/ InstallHup(i)
    \/ Bind(i) \/ ThreadStart(i) \/ WaitLoop(i)
    \/ BindFailCheck(i) \/ BindFailUnlink(i) \/ BindFailExit(i)
    \/ ShEvent(i) \/ ShRequest(i) \/ ShWait(i) \/ ShClose(i)
    \/ ShPidCheck(i) \/ ShUnlink(i) \/ ShExit(i)

ThreadStep(i) == ThreadEnter(i) \/ ThreadExit(i)

ClientStep(i) == ThreadAccept(i) \/ ThreadFinishRequest(i)

StopStep(k) ==
    \/ StopEnter(k) \/ StopCheck(k) \/ StopRead(k) \/ StopKill(k)
    \/ StopUnlinkStopped(k) \/ StopUnlinkNotFound(k)

LifeNext ==
    \/ \E i \in Starts : MainStep(i) \/ ThreadStep(i) \/ ClientStep(i)
    \/ \E i \in Starts : EnvSignal(i)
    \/ \E i \in Starts : PidReuse(PidOf(i, "grandchild"))
    \/ \E k \in Stops : StopStep(k)

\* ------------------------------------------------------------------------
\* ReloadHandler.translate_path, on texts as sequences of characters
\* ------------------------------------------------------------------------

Min(S) == CHOOSE x \in S : \A y \in S : x <= y

HexDigits == {"0", "1", "2", "3", "4", "5", "6", "7", "8", "9",
              "a", "b", "c", "d", "e", "f", "A", "B", "C", "D", "E", "F"}

\* The character a %xx escape stands for. The escapes of the characters
\* translate_path looks at are decoded to them; every other escape decodes
\* to a character it does not look at, written "x".
Decode(a, b) ==
    CASE a = "2" /\ b \in {"e", "E"} -> "."
      [] a = "2" /\ b \in {"f", "F"} -> "/"
      [] a = "2" /\ b = "5" -> "%"
      [] a = "2" /\ b = "3" -> "#"
      [] a = "3" /\ b \in {"f", "F"} -> "?"
      [] OTHER -> "x"

\* urllib.parse.unquote: every % followed by two hex digits is replaced by
\* the character it encodes, in one pass; any other % stays.
RECURSIVE unquoteFrom(_, _)
unquoteFrom(s, k) ==
    IF k > Len(s) THEN <<>>
    ELSE IF /\ s[k] = "%"
            /\ k + 2 <= Len(s)
            /\ s[k + 1] \in HexDigits
            /\ s[k + 2] \in HexDigits
         THEN <<Decode(s[k + 1], s[k + 2])>> \o unquoteFrom(s, k + 3)
         ELSE <<s[k]>> \o unquoteFrom(s, k + 1)

unquote(s) == unquoteFrom(s, 1)

\* s.split(c)[0]
SplitFirst(s, c) ==
    LET at == {k \in 1..Len(s) : s[k] = c}
    IN  IF at = {} THEN s ELSE SubSeq(s, 1, Min(at) - 1)

\* s.split(c)
RECURSIVE Split(_, _)
Split(s, c) ==
    LET at == {k \in 1..Len(s) : s[k] = c}
    IN  IF at = {} THEN <<s>>
        ELSE <<SubSeq(s, 1, Min(at) - 1)>>
                 \o Split(SubSeq(s, Min(at) + 1, Len(s)), c)

\* c.join(parts)
RECURSIVE Join(_, _)
Join(parts, c) ==
    IF parts = <<>> THEN <<>>
    ELSE IF Len(parts) = 1 THEN parts[1]
    ELSE parts[1] \o <<c>> \o Join(Tail(parts), c)

StartsWith(s, pre) ==
    Len(pre) <= Len(s) /\ SubSeq(s, 1, Len(pre)) = pre

Dot == <<".">>
DotDot == <<".", ".">>

\* The loop of posixpath.normpath over the components of the path.
RECURSIVE NormComps(_, _, _)
NormComps(comps, slashes, new) ==
    IF comps = <<>> THEN new
    ELSE LET comp == Head(comps)
             rest == Tail(comps)
         IN  IF comp = <<>> \/ comp = Dot THEN NormComps(rest, slashes, new)
             ELSE IF \/ comp # DotDot
                     \/ (slashes = 0 /\ new = <<>>)
                     \/ (new # <<>> /\ new[Len(new)] = DotDot)
                  THEN NormComps(rest, slashes, Append(new, comp))
             ELSE IF new # <<>>
                  THEN NormComps(rest, slashes, SubSeq(new, 1, Len(new) - 1))
             ELSE NormComps(rest, slashes, new)

\* os.path.normpath of POSIX.
normpath(path) ==
    IF path = <<>> THEN Dot
    ELSE LET slashes == IF ~StartsWith(path, <<"/">>) THEN 0
                        ELSE IF /\ StartsWith(path, <<"/", "/">>)
                                /\ ~StartsWith(path, <<"/", "/", "/">>)
                             THEN 2 ELSE 1
             body == Join(NormComps(Split(path, "/"), slashes, <<>>), "/")
             out == [k \in 1..slashes |-> "/"] \o body
         IN  IF out = <<>> THEN Dot ELSE out

\* Mutant: the filter of line 79 without "..".
Words_KeepDotDot(path) ==
    SelectSeq(Split(path, "/"), LAMBDA w : w # <<>> /\ w # Dot)

\* translate_path, line 79: the components that are not empty, "." or "..".
Words(path) ==
    SelectSeq(Split(path, "/"),
              LAMBDA w : w # <<>> /\ w # Dot /\ w # DotDot)

\* str(self.webroot.joinpath(*words)) for words without a separator.
JoinPath(root, words) ==
    IF root = <<"/">> THEN root \o Join(words, "/")
    ELSE root \o <<"/">> \o Join(words, "/")

\* translate_path, line 77: unquote(path).split("?")[0].split("#")[0]
Stripped(path) == SplitFirst(SplitFirst(unquote(path), "?"), "#")

\* ReloadHandler.translate_path
translate_path(root, path) ==
    LET words == Words(normpath(Stripped(path)))
    IN  IF words # <<>> THEN JoinPath(root, words) ELSE root

\* The pieces request paths are made of: separators, dot segments, a name,
\* the query and fragment marks, and percent escapes, whole and broken.
Pieces == {<<"/">>, <<".">>, <<"e">>, <<"?">>, <<"#">>,
           <<"%", "2", "e">>, <<"%", "2", "f">>, <<"%", "2", "5">>, <<"2">>}

\* The number of pieces of a request path.
MaxPieces == 4

RECURSIVE PathsOf(_)
PathsOf(n) ==
    IF n = 0 THEN {<<>>}
    ELSE LET shorter == PathsOf(n - 1)
         IN  shorter \cup {p \o t : p \in shorter, t \in Pieces}

Webroots == {<<"/">>, <<"/", "w">>}

PathInit ==
    /\ webroot \in Webroots
    /\ reqPath \in PathsOf(MaxPieces)
    /\ fsPath = <<>>
    /\ tpc = "request"

\* A handler calls self.translate_path(self.path).
Translate ==
    /\ tpc = "request"
    /\ fsPath' = translate_path(webroot, reqPath)
    /\ tpc' = "translated"
    /\ PathFrame
    /\ UNCHANGED <<webroot, reqPath>>

\* ------------------------------------------------------------------------
\* get_mtime, the webroot, and the polling loop of RELOAD_SCRIPT
\* ------------------------------------------------------------------------

Names == {"a", "b"}

\* The last instant of the clock, in half seconds.
MaxClock == 3

\* The ticks of the clock in a second: st_mtime is finer than a second.
TicksPerSecond == 2

\* int(f.stat().st_mtime)
Seconds(t) == t \div TicksPerSecond

\* Mutant: get_mtime without the is_file() test of line 51.
get_mtime_NoFilter(rk, d, kd, mt) ==
    IF rk # "dir" THEN <<>>
    ELSE [k \in 1..Len(d) |-> <<d[k], Seconds(mt[d[k]])>>]

\* get_mtime(webroot): empty unless the webroot is a directory; else the
\* dict {f.name: int(f.stat().st_mtime)} of the entries f of iterdir() (the
\* direct children d, in the order of the listing) that are regular files.
\* json.dumps on the server and JSON.stringify in the script keep that
\* order, so the sequence of pairs stands for the text they compare.
get_mtime(rk, d, kd, mt) ==
    IF rk # "dir" THEN <<>>
    ELSE LET files == SelectSeq(d, LAMBDA n : kd[n] = "file")
         IN  [k \in 1..Len(files) |-> <<files[k], Seconds(mt[files[k]])>>]

\* The mapping a fingerprint text denotes.
MapOf(fp) == {fp[k] : k \in 1..Len(fp)}

InDir(n) == \E k \in 1..Len(dir) : dir[k] = n

\* Path.is_file() of an entry of the webroot.
is_file(n) == InDir(n) /\ kind[n] = "file"

\* A change of the webroot leaves the request handler where it is; it is
\* late for the handler that has read the file n at line 112 and has yet
\* to compute the fingerprint at line 116, when it changes the fingerprint.
FsFrame(n) ==
    /\ UNCHANGED <<lifeVars, pathVars, injectVars,
                   rpc, rline, rpath, rname, rbody, rfp, rstatus>>
    /\ rlate' = (rlate \/ (/\ rpc = "h_mtimes"
                           /\ rbody = n
                           /\ get_mtime(rootKind, dir', kind', mtime')
                                  # get_mtime(rootKind, dir, kind, mtime)))

\* A change of the webroot is seen by a page that was served before it.
Touched ==
    seen' = IF pstate = "polling" /\ seen = "clean" THEN "changed" ELSE seen

\* The listings of a directory: its entries, each once, in some order.
Listings ==
    {d \in UNION {[1..m -> Names] : m \in 0..Cardinality(Names)} :
        \A j, k \in 1..Len(d) : j # k => d[j] # d[k]}

\* Any webroot: a path that names a directory of files and directories
\* with any modification times, a file, or nothing.
AnyWebroot ==
    /\ rootKind \in {"dir", "file", "absent"}
    /\ dir \in Listings
    /\ rootKind # "dir" => dir = <<>>
    /\ kind \in [Names -> {"file", "dir"}]
    /\ mtime \in [Names -> 0..MaxClock]
    /\ now = MaxClock
    /\ pstate = "none"
    /\ baseline = <<>>
    /\ seen = "clean"

PageInit ==
    /\ dir = <<>>
    /\ mtime = [n \in Names |-> 0]
    /\ now = 0
    /\ pstate = "none"
    /\ baseline = <<>>
    /\ seen = "clean"
    /\ kind = [n \in Names |-> "file"]
    /\ rootKind = "dir"

Tick ==
    /\ now < MaxClock
    /\ now' = now + 1
    /\ PageFrame
    /\ UNCHANGED <<dir, mtime, pstate, baseline, seen, kind, rootKind>>

\* A file is created in the webroot; where the listing shows it is up to
\* the file system.
AddFile(n) ==
    /\ ~InDir(n)
    /\ \E k \in 0..Len(dir) :
         dir' = SubSeq(dir, 1, k) \o <<n>> \o SubSeq(dir, k + 1, Len(dir))
    /\ mtime' = [mtime EXCEPT ![n] = now]
    /\ Touched
    /\ UNCHANGED <<now, pstate, baseline, kind, rootKind>>
    /\ FsFrame(n)

RemoveFile(n) ==
    /\ is_file(n)
    /\ dir' = SelectSeq(dir, LAMBDA x : x # n)
    /\ mtime' = [mtime EXCEPT ![n] = 0]
    /\ Touched
    /\ UNCHANGED <<now, pstate, baseline, kind, rootKind>>
    /\ FsFrame(n)

\* A file of the webroot is written.
ModifyFile(n) ==
    /\ is_file(n)
    /\ mtime' = [mtime EXCEPT ![n] = now]
    /\ Touched
    /\ UNCHANGED <<dir, now, pstate, baseline, kind, rootKind>>
    /\ FsFrame(n)

\* A directory is created in the webroot.
MakeDir(n) ==
    /\ ~InDir(n)
    /\ \E k \in 0..Len(dir) :
         dir' = SubSeq(dir, 1, k) \o <<n>> \o SubSeq(dir, k + 1, Len(dir))
    /\ kind' = [kind EXCEPT ![n] = "dir"]
    /\ mtime' = [mtime EXCEPT ![n] = now]
    /\ UNCHANGED <<now, pstate, baseline, seen, rootKind>>
    /\ FsFrame(n)

\* A directory of the webroot is removed.
RemoveDir(n) ==
    /\ InDir(n)
    /\ kind[n] = "dir"
    /\ dir' = SelectSeq(dir, LAMBDA x : x # n)
    /\ kind' = [kind EXCEPT ![n] = "file"]
    /\ mtime' = [mtime EXCEPT ![n] = 0]
    /\ UNCHANGED <<now, pstate, baseline, seen, rootKind>>
    /\ FsFrame(n)

\* Mutant: the script is sent as it is written, with `let mtimes = {}`.
ServePage_EmptyBaseline ==
    /\ pstate \in {"none", "reloading"}
    /\ baseline' = <<>>
    /\ pstate' = "polling"
    /\ seen' = "clean"
    /\ PageFrame
    /\ UNCHANGED <<dir, mtime, now, kind, rootKind>>

\* _serve_html, lines 116-119, and the browser that loads the answer: the
\* script starts with `let mtimes = ` json.dumps(get_mtime(webroot)). The
\* page is asked for the first time, or again after location.reload().
ServePage ==
    /\ pstate \in {"none", "reloading"}
    /\ baseline' = get_mtime(rootKind, dir, kind, mtime)
    /\ pstate' = "polling"
    /\ seen' = "clean"
    /\ PageFrame
    /\ UNCHANGED <<dir, mtime, now, kind, rootKind>>

\* Mutant: check() fetches /.mtimes and never finds a difference.
PollOk_Ignore ==
    /\ pstate = "polling"
    /\ seen' = IF seen = "changed" THEN "missed" ELSE seen
    /\ PageFrame
    /\ UNCHANGED <<dir, mtime, now, baseline, pstate, kind, rootKind>>

\* RELOAD_SCRIPT, check(): the fetch of /.mtimes is answered by
\* _serve_mtimes with json.dumps(get_mtime(webroot)); a text other than that
\* of mtimes replaces mtimes and reloads the page.
PollOk ==
    /\ pstate = "polling"
    /\ LET newMtimes == get_mtime(rootKind, dir, kind, mtime)
       IN  IF newMtimes # baseline
           THEN /\ baseline' = newMtimes
                /\ pstate' = "reloading"
                /\ UNCHANGED seen
           ELSE /\ seen' = IF seen = "changed" THEN "missed" ELSE seen
                /\ UNCHANGED <<baseline, pstate>>
    /\ PageFrame
    /\ UNCHANGED <<dir, mtime, now, kind, rootKind>>

\* RELOAD_SCRIPT, .catch(() => {}): a fetch that fails changes nothing.
PollFail ==
    /\ pstate = "polling"
    /\ PageFrame
    /\ UNCHANGED pageVars

\* ------------------------------------------------------------------------
\* ReloadHandler.do_GET: one request at a time, while the webroot changes
\* ------------------------------------------------------------------------

\* The entries the webroot can hold while requests are served.
ServeNames == {"index.html", "index.htm", "x.txt"}

\* The extension a name ends with.
Suffix == [n \in ServeNames |->
             CASE n = "index.html" -> ".html"
               [] n = "index.htm" -> ".htm"
               [] OTHER -> ".txt"]

\* self.path of the requests: "/", "/.mtimes" and "/<name>".
Requests == {<<"/">>, <<"/", ".mtimes">>} \cup {<<"/", n>> : n \in ServeNames}

\* What a path of the webroot names when it is opened.
Found(n) == IF ~InDir(n) THEN "absent" ELSE kind[n]

ServeInit ==
    /\ dir = <<>>
    /\ mtime = [n \in ServeNames |-> 0]
    /\ kind = [n \in ServeNames |-> "file"]
    /\ rootKind = "dir"
    /\ now = 0
    /\ pstate = "none"
    /\ baseline = <<>>
    /\ seen = "clean"

\* A client sends GET p; the handler of the request before has returned.
Request(p) ==
    /\ rpc \in {"idle", "done"}
    /\ rpc' = "do_GET"
    /\ rline' = p
    /\ rpath' = p
    /\ rname' = ""
    /\ rbody' = ""
    /\ rfp' = <<>>
    /\ rstatus' = 0
    /\ rlate' = FALSE
    /\ ServeFrame

\* do_GET, lines 84-90: the route; _serve_html and _serve_file start with
\* translate_path(self.path), which gives the file <name> of the webroot for
\* the path "/<name>".
DoGet ==
    /\ rpc = "do_GET"
    /\ IF rpath = <<"/", ".mtimes">>
       THEN rpc' = "mtimes" /\ UNCHANGED rname
       ELSE IF rpath = <<"/">>
       THEN rpc' = "i_html" /\ UNCHANGED rname
       ELSE IF Suffix[rpath[2]] \in {".html", ".htm"}
       THEN rpc' = "h_read" /\ rname' = rpath[2]
       ELSE rpc' = "f_read" /\ rname' = rpath[2]
    /\ ServeFrame
    /\ UNCHANGED <<rline, rpath, rbody, rfp, rstatus, rlate>>

\* _serve_mtimes, lines 92-97.
ServeMtimes ==
    /\ rpc = "mtimes"
    /\ rfp' = get_mtime(rootKind, dir, kind, mtime)
    /\ rstatus' = 200
    /\ rpc' = "done"
    /\ ServeFrame
    /\ UNCHANGED <<rline, rpath, rname, rbody, rlate>>

\* _serve_index, lines 101-104, one turn of the loop: is_file() of the name;
\* a file makes the request one for "/<name>", handed to _serve_html.
ServeIndex(at, name, next) ==
    /\ rpc = at
    /\ IF is_file(name)
       THEN /\ rpath' = <<"/", name>>
            /\ rname' = name
            /\ rpc' = "h_read"
            /\ UNCHANGED rbody
       ELSE /\ rpc' = next
            /\ rbody' = IF next = "h_mtimes" THEN "DEFAULT_HTML" ELSE rbody
            /\ UNCHANGED <<rpath, rname>>
    /\ ServeFrame
    /\ UNCHANGED <<rline, rfp, rstatus, rlate>>

ServeIndexHtml == ServeIndex("i_html", "index.html", "i_htm")

\* With neither file, line 105: _serve_html(content=DEFAULT_HTML).
ServeIndexHtm == ServeIndex("i_htm", "index.htm", "h_mtimes")

\* _serve_html, lines 108-114: Path(path).read_text(). FileNotFoundError is
\* answered with 404; IsADirectoryError is caught by nothing, socketserver
\* closes the connection and no response is sent.
ServeHtmlRead ==
    /\ rpc = "h_read"
    /\ CASE Found(rname) = "file" ->
              /\ rbody' = rname
              /\ rpc' = "h_mtimes"
              /\ UNCHANGED rstatus
         [] Found(rname) = "absent" ->
              /\ rstatus' = 404
              /\ rpc' = "done"
              /\ UNCHANGED rbody
         [] OTHER ->
              /\ rstatus' = 0
              /\ rpc' = "done"
              /\ UNCHANGED rbody
    /\ ServeFrame
    /\ UNCHANGED <<rline, rpath, rname, rfp, rlate>>

\* _serve_html, lines 116-131: the fingerprint is computed now, put into the
\* script, and the content read before is sent with it.
ServeHtmlSend ==
    /\ rpc = "h_mtimes"
    /\ rfp' = get_mtime(rootKind, dir, kind, mtime)
    /\ rstatus' = 200
    /\ rpc' = "done"
    /\ ServeFrame
    /\ UNCHANGED <<rline, rpath, rname, rbody, rlate>>

\* _serve_file, lines 133-144.
ServeFile ==
    /\ rpc = "f_read"
    /\ IF Found(rname) = "file"
       THEN rstatus' = 200 /\ rbody' = rname
       ELSE rstatus' = 404 /\ UNCHANGED rbody
    /\ rpc' = "done"
    /\ ServeFrame
    /\ UNCHANGED <<rline, rpath, rname, rfp, rlate>>

\* ------------------------------------------------------------------------
\* _serve_html, lines 116-124: the script built and put into the content
\* ------------------------------------------------------------------------

\* The closing tag the code looks for, as a piece of text.
BodyEnd == <<"</body>">>

\* The pieces a document is made of: that tag, and other text.
Pieces_Html == {BodyEnd, <<"<p>">>, <<"</html>">>}

\* The longest document, in pieces.
MaxHtml == 4

\* RELOAD_SCRIPT.replace("let mtimes = {}", "let mtimes = " json.dumps(mtimes)):
\* the script block, holding the fingerprint.
Script(mtimes) == <<"<script>", mtimes>>

Contains(content, piece) == \E k \in 1..Len(content) : content[k] = piece

\* str.replace(old, new): every occurrence of old is replaced.
RECURSIVE Replace(_, _, _)
Replace(content, old, new) ==
    IF content = <<>> THEN <<>>
    ELSE (IF Head(content) = old THEN new ELSE <<Head(content)>>)
             \o Replace(Tail(content), old, new)

\* Lines 121-124.
Inject(content, mtimes) ==
    IF Contains(content, BodyEnd)
    THEN Replace(content, BodyEnd, <<Script(mtimes), BodyEnd>>)
    ELSE content \o <<Script(mtimes)>>

HtmlOf(n) == UNION {[1..m -> Pieces_Html] : m \in 0..n}

InjectInit ==
    /\ html \in HtmlOf(MaxHtml)
    /\ ifp \in {<<>>, << <<"a", 0>> >>}
    /\ injected = <<>>

InjectStep ==
    /\ injected = <<>>
    /\ injected' = Inject(html, ifp)
    /\ InjectFrame
    /\ UNCHANGED <<html, ifp>>

\* ------------------------------------------------------------------------
\* Specifications
\* ------------------------------------------------------------------------

\* The variables of a part that a specification leaves out.
PathIdle ==
    /\ webroot = <<"/">>
    /\ reqPath = <<>>
    /\ fsPath = <<>>
    /\ tpc = "request"

PageIdle ==
    /\ dir = <<>>
    /\ mtime = [n \in Names |-> 0]
    /\ now = 0
    /\ pstate = "none"
    /\ baseline = <<>>
    /\ seen = "clean"
    /\ kind = [n \in Names |-> "file"]
    /\ rootKind = "dir"

InjectIdle ==
    /\ html = <<>>
    /\ ifp = <<>>
    /\ injected = <<>>

ServeIdle ==
    /\ rpc = "idle"
    /\ rline = <<>>
    /\ rpath = <<>>
    /\ rname = ""
    /\ rbody = ""
    /\ rfp = <<>>
    /\ rstatus = 0
    /\ rlate = FALSE

LifeIdle ==
    /\ pc = [i \in Starts |-> "start"]
    /\ daemon = [i \in Starts |-> FALSE]
    /\ role = [i \in Starts |-> "parent"]
    /\ exit = [i \in Starts |-> "run"]
    /\ stdio = [i \in Starts |-> "tty"]
    /\ handlers = [i \in Starts |-> {}]
    /\ server = [i \in Starts |-> "none"]
    /\ thread = [i \in Starts |-> "none"]
    /\ shutdownEvent = [i \in Starts |-> FALSE]
    /\ shutdownRequest = [i \in Starts |-> FALSE]
    /\ isShutDown = [i \in Starts |-> FALSE]
    /\ bindResult = [i \in Starts |-> "untried"]
    /\ pidDir = "present"
    /\ pidFile = NoFile
    /\ foreign = {}
    /\ nsig = 0
    /\ kpc = [k \in Stops |-> "k_start"]
    /\ kpid = [k \in Stops |-> NoFile]
    /\ kexit = [k \in Stops |-> "run"]
    /\ sent = [k \in Stops |-> <<>>]

\* The process lifecycle: starts, stops, signals.
Init == LifeInit /\ PathIdle /\ PageIdle /\ ServeIdle /\ InjectIdle

Next == LifeNext

Spec == Init /\ [][Next]_vars

\* One call of translate_path on a request path.
PathSpecInit ==
    PathInit /\ LifeIdle /\ PageIdle /\ ServeIdle /\ InjectIdle

PathNext == Translate

PathSpec == PathSpecInit /\ [][PathNext]_vars

\* A page of a running server, its polls scheduled again and again and
\* its fetches not failing for ever, while the webroot changes.
ReloadInit ==
    PageInit /\ LifeIdle /\ PathIdle /\ ServeIdle /\ InjectIdle

PageStep ==
    \/ Tick
    \/ \E n \in Names : AddFile(n) \/ RemoveFile(n) \/ ModifyFile(n)
    \/ ServePage
    \/ PollOk
    \/ PollFail

ReloadNext == PageStep

ReloadSpec ==
    /\ ReloadInit
    /\ [][ReloadNext]_vars
    /\ WF_vars(PollOk)
    /\ WF_vars(ServePage)

\* Requests handled one after the other by the serving thread, while files
\* and directories of the webroot come, change and go.
ServeSpecInit ==
    ServeInit /\ ServeIdle /\ LifeIdle /\ PathIdle /\ InjectIdle

ServeNext ==
    \/ Tick
    \/ \E n \in ServeNames :
         \/ AddFile(n)
         \/ RemoveFile(n)
         \/ ModifyFile(n)
         \/ MakeDir(n)
         \/ RemoveDir(n)
    \/ \E p \in Requests : Request(p)
    \/ DoGet
    \/ ServeMtimes
    \/ ServeIndexHtml
    \/ ServeIndexHtm
    \/ ServeHtmlRead
    \/ ServeHtmlSend
    \/ ServeFile

ServeSpec == ServeSpecInit /\ [][ServeNext]_vars

\* A webroot that nothing changes: a page is served and polls.
FingerprintInit ==
    AnyWebroot /\ LifeIdle /\ PathIdle /\ ServeIdle /\ InjectIdle

FingerprintNext == ServePage \/ PollOk \/ PollFail

FingerprintSpec == FingerprintInit /\ [][FingerprintNext]_vars

\* One injection into a document.
InjectSpecInit ==
    InjectInit /\ LifeIdle /\ PathIdle /\ PageIdle /\ ServeIdle

InjectNext == InjectStep

InjectSpec == InjectSpecInit /\ [][InjectNext]_vars


\* The lifecycle with the scheduling the operating system gives: a thread
\* or a command that can take a step takes it. Signals, connections and
\* their clients come and go as they like.
LifeFairSpec ==
    /\ Init
    /\ [][Next]_vars
    /\ \A i \in Starts : WF_vars(MainStep(i)) /\ WF_vars(ThreadStep(i))
    /\ \A k \in Stops : WF_vars(StopStep(k))

\* ------------------------------------------------------------------------
\* The claims
\* ------------------------------------------------------------------------

\* The mapping of the webroot differs from the one the page holds.
Stale == MapOf(get_mtime(rootKind, dir, kind, mtime)) # MapOf(baseline)

\* C1 as stated: a file added, removed or modified after the page was served
\* makes the page reload: a poll that has fetched /.mtimes after the change
\* never leaves the page as it was.
C1_ReloadOnAnyChange == seen # "missed"

\* C1, amended: whenever the name -> whole-second-mtime mapping of the
\* webroot differs from the baseline of a polling page, the page eventually
\* forces a reload, unless the mapping has returned to the baseline before;
\* the reload is forced by the poll that replaced the baseline with the
\* fingerprint it fetched.
C1_ReloadOnFingerprintChange ==
    /\ (pstate = "polling" /\ Stale) ~> (pstate = "reloading" \/ ~Stale)
    /\ [][pstate = "polling" /\ pstate' = "reloading"
             => baseline' = get_mtime(rootKind, dir, kind, mtime) /\ baseline' # baseline]_vars
    /\ [][pstate = "polling" /\ baseline' # baseline
             => pstate' = "reloading"]_vars

\* A page reloads after a change, holding the fingerprint it fetched.
C1_Witness ==
    /\ pstate = "reloading"
    /\ seen = "changed"
    /\ baseline # <<>>
    /\ baseline = get_mtime(rootKind, dir, kind, mtime)

\* C2: the path translate_path returns starts with the text of the webroot,
\* at a segment boundary; no segment below the webroot is "." or ".."; and
\* a request path whose segments (decoded, query and fragment cut off) are
\* all empty, "." or ".." gives the webroot itself.
C2_PathConfinement ==
    tpc = "translated" =>
        LET below == SubSeq(fsPath, Len(webroot) + 1, Len(fsPath))
            segs == Split(below, "/")
            asked == Split(Stripped(reqPath), "/")
        IN  /\ StartsWith(fsPath, webroot)
            /\ below = <<>> \/ webroot = <<"/">> \/ below[1] = "/"
            /\ \A k \in 1..Len(segs) : segs[k] # Dot /\ segs[k] # DotDot
            /\ (\A k \in 1..Len(asked) : asked[k] \in {<<>>, Dot, DotDot})
                   => fsPath = webroot

\* Two percent-encoded ".." ahead of a name: the name lands in the webroot.
C2_Witness ==
    /\ tpc = "translated"
    /\ webroot = <<"/", "w">>
    /\ reqPath = <<"%", "2", "e", "%", "2", "e", "/", "e">>
    /\ fsPath = <<"/", "w", "/", "e">>

\* C3 as stated: once _shutdown has been entered for a signal, the shutdown
\* event is marked and the process ends with status 0.
C3_ShutdownCompletes ==
    \A i \in Starts :
        At(i, "sh_event") ~> (exit[i] = "exit0" /\ shutdownEvent[i])

\* C4: a PID file that exists holds the pid of the grandchild of a daemon
\* start whose standard streams are redirected; and the file is only ever
\* written by such a grandchild, with its own pid.
C4_PidFileNamesDaemon ==
    /\ [](Exists =>
            \E i \in Starts :
                /\ daemon[i]
                /\ pidFile = PidOf(i, "grandchild")
                /\ role[i] = "grandchild"
                /\ stdio[i] = "null")
    /\ [][pidFile' # pidFile /\ pidFile' # NoFile =>
            \E i \in Starts :
                /\ At(i, "writepid")
                /\ role[i] = "grandchild"
                /\ stdio[i] = "null"
                /\ pidFile' = Getpid(i)
                /\ pc'[i] = "sig_int"]_vars

\* The daemon of s1 serves, and the PID file names it.
C4_Witness ==
    /\ pidFile = PidOf("s1", "grandchild")
    /\ At("s1", "wait")
    /\ thread["s1"] = "loop"

\* The step invocation i takes by itself (no signal is delivered).
OwnStep(i) ==
    /\ <<pc[i], exit[i]>> # <<pc'[i], exit'[i]>>
    /\ nsig' = nsig
    /\ sent' = sent

\* C5: a daemon start that finds the PID file ends with status 1 where it
\* stands: it has not forked, installed no handler and bound no socket,
\* and the PID file is as it was.
C5_DaemonStartRefused ==
    /\ [][\A i \in Starts :
            At(i, "d_check") /\ Exists /\ OwnStep(i) =>
                /\ exit'[i] = "exit1"
                /\ pc'[i] = "d_check"
                /\ pidFile' = pidFile]_vars
    /\ [](\A i \in Starts :
            pc[i] = "d_check" /\ exit[i] # "run" =>
                /\ exit[i] \in {"exit1", "killed"}
                /\ role[i] = "parent"
                /\ handlers[i] = {}
                /\ bindResult[i] = "untried"
                /\ server[i] = "none"
                /\ thread[i] = "none")

\* A daemon start was refused, the PID file of the other daemon in place.
C5_Witness ==
    \E i \in Starts :
        /\ pc[i] = "d_check"
        /\ exit[i] = "exit1"
        /\ \E j \in Starts \ {i} : pidFile = PidOf(j, "grandchild")

\* C6 as stated: after a failed bind no serving thread is started, the
\* process ends with a status that is not 0, and a daemon's PID file does
\* not name it when it ends.
C6_BindFailureExitsNonZero ==
    \A i \in Starts :
        bindResult[i] = "failed" =>
            /\ thread[i] = "none"
            /\ ~Alive(i) => /\ exit[i] # "exit0"
                            /\ daemon[i] => pidFile # Getpid(i)

\* C6, amended: after a failed bind no serving thread is started and no
\* second bind is tried; the process ends with status 1, unless a shutdown
\* signal is handled before it has ended, and then _shutdown ends it with
\* status 0; either way the PID file does not name a daemon that has ended.
C6_BindFailure ==
    /\ [](\A i \in Starts :
            bindResult[i] = "failed" =>
                /\ thread[i] = "none"
                /\ server[i] = "none"
                /\ ~Alive(i) =>
                     /\ \/ exit[i] = "exit1" /\ pc[i] \in {"bf_unlink", "bf_exit"}
                        \/ exit[i] = "exit0" /\ pc[i] = "sh_exit"
                                             /\ shutdownEvent[i]
                     /\ daemon[i] => pidFile # Getpid(i))
    /\ [][\A i \in Starts :
            bindResult[i] = "failed" =>
                bindResult'[i] = "failed" /\ pc'[i] # "bind"]_vars

\* A daemon whose bind failed has ended with status 1, its PID file gone.
C6_Witness ==
    \E i \in Starts :
        /\ daemon[i]
        /\ bindResult[i] = "failed"
        /\ pc[i] = "bf_exit"
        /\ exit[i] = "exit1"
        /\ pidFile = NoFile

\* The step the stop command k takes.
StopOwnStep(k) == <<kpc[k], kexit[k]>> # <<kpc'[k], kexit'[k]>>

\* C7: a stop command calls os.kill at most once, with SIGTERM and the pid
\* it read from the PID file, and exactly once when it has read one; the
\* signal reaches the process of that pid and no other; and after a
\* delivered signal its next step removes the PID file: the file is absent
\* after it, and the command returns when the file was there to remove.
C7_StopSignalsRecordedPid ==
    /\ [](\A k \in Stops :
            /\ Len(sent[k]) <= 1
            /\ sent[k] # <<>> => sent[k][1] = <<kpid[k], "SIGTERM">>
            /\ kpid[k] = NoFile => sent[k] = <<>>
            /\ kpid[k] # NoFile /\ ~KAt(k, "k_kill") => Len(sent[k]) = 1)
    /\ [][\A k \in Stops :
            kpid'[k] # kpid[k] => Exists /\ kpid'[k] = pidFile]_vars
    /\ [][\A k \in Stops :
            sent'[k] # sent[k] =>
                \A i \in Starts :
                    <<pc'[i], exit'[i]>> # <<pc[i], exit[i]>> =>
                        Getpid(i) = kpid[k]]_vars
    /\ [][\A k \in Stops :
            KAt(k, "k_kill") /\ kpc'[k] = "k_unlink_ok" =>
                \E i \in Starts :
                    /\ Alive(i)
                    /\ Getpid(i) = kpid[k]
                    /\ pc'[i] = "sh_event" \/ exit'[i] = "killed"]_vars
    /\ [][\A k \in Stops :
            KAt(k, "k_unlink_ok") /\ StopOwnStep(k) =>
                /\ pidFile' = NoFile
                /\ Exists => kexit'[k] = "exit0"]_vars

\* A stop command has signalled the daemon of s1, removed the PID file and
\* returned.
C7_Witness ==
    \E k \in Stops :
        /\ kpc[k] = "k_unlink_ok"
        /\ kexit[k] = "exit0"
        /\ sent[k] = << <<PidOf("s1", "grandchild"), "SIGTERM">> >>
        /\ pidFile = NoFile

\* C8 as stated: a stop command that found no process for the recorded pid
\* does not end with status 1.
C8_StaleStopSucceeds ==
    \A k \in Stops :
        kpc[k] = "k_unlink_gone" /\ kexit[k] # "run" => kexit[k] # "exit1"

\* C9: a stop command whose os.kill is refused ends there with status 1,
\* and that step leaves the PID file as it is; a stop command ends at
\* os.kill in no other case.
C9_StopDenied ==
    /\ [][\A k \in Stops :
            KAt(k, "k_kill") /\ kpid[k] \in foreign /\ StopOwnStep(k) =>
                /\ kexit'[k] = "exit1"
                /\ kpc'[k] = "k_kill"
                /\ pidFile' = pidFile]_vars
    /\ [](\A k \in Stops :
            kpc[k] = "k_kill" /\ kexit[k] # "run" =>
                kexit[k] = "exit1" /\ kpid[k] \in foreign)

\* A stop command was refused; the PID file still holds the pid it read.
C9_Witness ==
    \E k \in Stops :
        /\ kpc[k] = "k_kill"
        /\ kexit[k] = "exit1"
        /\ kpid[k] # NoFile
        /\ pidFile = kpid[k]

\* C10 as stated: a stop command that found no PID file has ended with
\* status 1, has sent no signal and has changed nothing that persists.
C10_StopTouchesNothing ==
    \A k \in Stops :
        kpc[k] = "k_check" /\ kexit[k] # "run" =>
            /\ kexit[k] = "exit1"
            /\ sent[k] = <<>>
            /\ pidDir # k

\* C10, amended: a stop command that finds no PID file ends with status 1,
\* sends no signal and creates no PID file; the one thing it can change is
\* the directory of the PID file, which get_pid_file creates when missing.
C10_StopWithoutPidFile ==
    /\ [](\A k \in Stops :
            kpc[k] = "k_check" /\ kexit[k] # "run" =>
                /\ kexit[k] = "exit1"
                /\ sent[k] = <<>>
                /\ kpid[k] = NoFile)
    /\ [][\A k \in Stops :
            KAt(k, "k_check") /\ ~Exists /\ StopOwnStep(k) =>
                /\ kexit'[k] = "exit1"
                /\ kpc'[k] = "k_check"
                /\ UNCHANGED <<pidFile, pidDir, sent, pc, exit>>]_vars
    /\ [][\A k \in Stops :
            KAt(k, "k_start") /\ StopOwnStep(k) =>
                /\ pidFile' = pidFile
                /\ pidDir' = IF pidDir = "absent" THEN k ELSE pidDir]_vars

\* A stop command found no PID file, in a directory it had to create.
C10_Witness ==
    \E k \in Stops :
        /\ kpc[k] = "k_check"
        /\ kexit[k] = "exit1"
        /\ pidDir = k
        /\ pidFile = NoFile

\* C11 as stated: a request for "/" that has been handled was answered with
\* status 200.
C11_RootNeverNotFound ==
    rpc = "done" /\ rline = <<"/">> => rstatus = 200

\* C12 as stated: a request other than "/" and "/.mtimes" whose file could
\* not be read, being missing or a directory, was answered with status 404.
C12_UnreadableIsNotFound ==
    rpc = "done" /\ rline \notin {<<"/">>, <<"/", ".mtimes">>} /\ rbody = ""
        => rstatus = 404

\* C13 as stated: the injection into a content that contains "</body>" puts
\* one script block into it, right before a "</body>": taking that block
\* out of the result gives the content back.
C13_OneScriptBeforeBody ==
    injected # <<>> /\ Contains(html, BodyEnd) =>
        \E k \in 1..(Len(injected) - 1) :
            /\ injected[k] = Script(ifp)
            /\ injected[k + 1] = BodyEnd
            /\ html = SubSeq(injected, 1, k - 1)
                          \o SubSeq(injected, k + 1, Len(injected))

\* The regular files directly in the webroot.
RegularFiles == {n \in Names : is_file(n)}

\* C14: the fingerprint a page was served with has one entry for each
\* regular file directly in the webroot and no other entry, each with the
\* whole second its st_mtime lies in; it is empty for an empty directory
\* and for a webroot that is no directory; and a poll of a webroot that has
\* not changed fetches an equal fingerprint: the page does not reload.
C14_FingerprintContent ==
    /\ [](pstate = "polling" =>
            /\ Len(baseline) = Cardinality(RegularFiles)
            /\ {baseline[k][1] : k \in 1..Len(baseline)} = RegularFiles
            /\ \A k \in 1..Len(baseline) :
                 LET secs == baseline[k][2]
                     t == mtime[baseline[k][1]]
                 IN  /\ secs \in Nat
                     /\ secs * TicksPerSecond <= t
                     /\ t < (secs + 1) * TicksPerSecond
            /\ rootKind # "dir" \/ dir = <<>> => baseline = <<>>)
    /\ [](pstate # "reloading")
    /\ [][pstate = "polling" => baseline' = baseline]_vars

\* A page served from a webroot with a file, written in the second second,
\* and a directory: the fingerprint is the file's entry.
C14_Witness ==
    /\ pstate = "polling"
    /\ rootKind = "dir"
    /\ Len(dir) = 2
    /\ \E n \in Names : InDir(n) /\ kind[n] = "dir"
    /\ \E n \in Names : is_file(n) /\ mtime[n] = 3 /\ baseline = << <<n, 1>> >>

\* The fingerprint of the webroot as it is.
Current == get_mtime(rootKind, dir, kind, mtime)

\* C15: a page starts to poll with the fingerprint of the webroot it was
\* served from as its baseline; a poll that fetches a fingerprint other
\* than the baseline puts it in the place of the baseline and reloads the
\* page; a poll that fetches the baseline, and a fetch that fails, change
\* nothing of the page, which polls on; and the page reloads in no other
\* way.
C15_PollStep ==
    /\ [][pstate # "polling" /\ pstate' = "polling" => baseline' = Current]_vars
    /\ [][PollOk /\ Current # baseline =>
              baseline' = Current /\ pstate' = "reloading"]_vars
    /\ [][PollOk /\ Current = baseline =>
              baseline' = baseline /\ pstate' = "polling"]_vars
    /\ [][PollFail => baseline' = baseline /\ pstate' = "polling"]_vars
    /\ [][pstate = "polling" /\ pstate' = "reloading" =>
              Current # baseline /\ baseline' = Current]_vars
    /\ [][pstate = "polling" /\ pstate' = "polling" =>
              baseline' = baseline]_vars

\* A page served with the entry of one file has polled after a second file
\* came, and reloads with both entries as its baseline.
C15_Witness ==
    /\ pstate = "reloading"
    /\ Len(baseline) = 2
    /\ baseline = Current

\* C16 as stated: a stop command that has signalled the daemon returns
\* without error, whichever of the two removes the PID file first.
C16_StopToleratesGone ==
    \A k \in Stops :
        kpc[k] = "k_unlink_ok" /\ kexit[k] # "run" => kexit[k] = "exit0"

\* C17 as stated: the unlink() of _shutdown leaves a PID file that names
\* another process as it is.
C17_ShutdownKeepsOthersFile ==
    [][\A i \in Starts :
          At(i, "sh_unlink") /\ pc'[i] # pc[i] /\ pidFile # Getpid(i)
              => pidFile' = pidFile]_vars

\* C18 as stated: a daemon start never writes its pid over a PID file
\* that names another daemon that is alive.
C18_NoOverwrite ==
    [][\A i \in Starts :
          At(i, "writepid") /\ pc'[i] # pc[i] =>
              ~\E j \in Starts \ {i} : Alive(j) /\ pidFile = Getpid(j)]_vars

\* The daemon of invocation i has written its PID file.
HasWritten(i) ==
    /\ daemon[i]
    /\ role[i] = "grandchild"
    /\ pc[i] \notin {"start", "d_check", "fork1", "detach", "fork2",
                     "redirect", "writepid"}

\* C19 as stated: a daemon that has written its PID file and has ended is
\* not named by the PID file.
C19_NoStalePidFile ==
    \A i \in Starts : HasWritten(i) /\ ~Alive(i) => pidFile # Getpid(i)

\* C20 as stated: an HTML response whose content was read before a write
\* of the served file that changed the fingerprint does not carry the
\* fingerprint of the directory as it is now as the client's baseline.
C20_BaselineNotNewer ==
    /\ rpc = "done"
    /\ rstatus = 200
    /\ rbody \in {"index.html", "index.htm"}
    /\ rlate
    /\ is_file(rbody)
    => rfp # get_mtime(rootKind, dir, kind, mtime)

====
